---- MODULE Spec2Model ----
(***************************************************************************)
(* Model of audio_transcriber.py: the AssemblyAI job client                *)
(* (upload_to_assemblyai, request_transcription, poll_transcription), the  *)
(* segment assembler (format_segments), the word wrapper (wrap_text) and   *)
(* the PDF pagination loop of main.                                        *)
(*                                                                         *)
(* JSON objects are TLA+ functions from keys to values; a key the object   *)
(* does not carry is simply not in its DOMAIN, and dict.get is Get.        *)
(* Python's None is NoneVal for the string-valued fields (status, error)   *)
(* and JNull for the polymorphic field speaker_labels, whose values are    *)
(* tagged with their JSON kind.                                            *)
(***************************************************************************)
EXTENDS Integers, Sequences, FiniteSets, TLC

VARIABLES
    pc,          \* position of main: upload, request, poll, sleep, check, format, render, done, aborted
    token,       \* os.getenv("AAI_TOKEN") is set
    out,         \* args.output: "" (not given), or a file name
    queries,     \* number of requests.get issued by poll_transcription
    sleeps,      \* number of time.sleep(interval) performed by poll_transcription
    failures,    \* number of status queries that failed (timeout or HTTP error)
    statuses,    \* the statuses of the JSON answers received so far, in order
    lastJson,    \* the JSON body of the last answered status query
    result,      \* what poll_transcription returned (NoResult before it returns)
    outcome,     \* how the run ended: none, ok, ConfigError, SubmissionError, TransportError, JobError
    reported,    \* the message printed after "Error:" (NoneVal when nothing was printed)
    segments,    \* what format_segments returned
    assembled,   \* format_segments has been called
    emitted,     \* the transcript output produced: kind and number of lines
    wtext,       \* wrap_text: text, a sequence of characters ("a" or " ")
    wsize,       \* wrap_text: font size
    wmax,        \* wrap_text: max_width
    wlines,      \* wrap_text: the returned lines, each a sequence of words
    wpc,         \* wrap_text: input / wrapped
    y,           \* PDF loop: vertical cursor
    page,        \* PDF loop: current page number
    drawn,       \* PDF loop: per page, the y of each body line drawn on it
    font,        \* PDF loop: the canvas' current font
    ppc          \* PDF loop: title / body / saved

jobVars  == <<pc, token, out, queries, sleeps, failures, statuses, lastJson, result,
              outcome, reported, segments, assembled, emitted>>
wrapVars == <<wtext, wsize, wmax, wlines, wpc>>
pageVars == <<y, page, drawn, font, ppc>>
vars     == <<jobVars, wrapVars, pageVars>>

----------------------------------------------------------------------------
(* Bounds of the model *)

MaxPolls == 4       \* non-terminal answers stop being offered after this many queries
MaxTurns == 2       \* longest list of diarization turns handed to format_segments
MaxWords == 2       \* longest list of words handed to format_segments
MaxChars == 8       \* longest text handed to wrap_text, in characters
MaxLines == 120     \* most body lines drawn by the PDF loop

----------------------------------------------------------------------------
(* JSON helpers *)

NoneVal == "<None>"
JNull   == [kind |-> "null"]
NoResult == [none |-> TRUE]

\* dict.get(key, default)
Get(d, k, def) == IF k \in DOMAIN d THEN d[k] ELSE def

\* truth value of a string-or-None field, as in `if result.get("error")`
TruthyStr(v) == v # NoneVal /\ v # ""

----------------------------------------------------------------------------
(* poll_transcription *)

\* line 58: status in ("completed", "error")
IsTerminal_CompletedOnly(status) == status = "completed"

IsTerminal(status) == status \in {"completed", "error"}

\* lines 54-55: requests.get raising, or raise_for_status() on a 4xx/5xx answer,
\* propagates out of poll_transcription and main: no except clause, no retry
AfterFailedQuery_RetryOnce(nfail) == IF nfail <= 1 THEN "sleep" ELSE "aborted"

AfterFailedQuery(nfail) == "aborted"

----------------------------------------------------------------------------
(* format_segments *)

\* truth value of a JSON value, as in `not labels`
Truthy(v) ==
    CASE v.kind = "null"   -> FALSE
      [] v.kind = "bool"   -> v.val
      [] v.kind = "number" -> v.val # 0
      [] v.kind = "string" -> v.val # ""
      [] v.kind = "list"   -> v.val # <<>>
      [] v.kind = "dict"   -> DOMAIN v.val # {}

\* line 66: not labels or not isinstance(labels, dict)
UseFallback(labels) == ~Truthy(labels) \/ labels.kind # "dict"

\* lines 78-79: milliseconds / 1000.0, kept exactly as whole seconds and thousandths
Seconds(ms) == [sec |-> ms \div 1000, msec |-> ms % 1000]

\* comparison of two values of Seconds, as < on the floats they stand for
SecondsLess(a, b) == a.sec < b.sec \/ (a.sec = b.sec /\ a.msec < b.msec)

\* " ".join(texts)
RECURSIVE Join(_)
Join(texts) ==
    IF texts = <<>> THEN ""
    ELSE IF Len(texts) = 1 THEN texts[1]
    ELSE texts[1] \o " " \o Join(Tail(texts))

\* line 82: seg["start"] <= w.get("start", -1) < seg["end"]
InTurn_EndInclusive(seg, w) ==
    seg["start"] <= Get(w, "start", -1) /\ Get(w, "start", -1) <= seg["end"]

InTurn(seg, w) ==
    seg["start"] <= Get(w, "start", -1) /\ Get(w, "start", -1) < seg["end"]

\* lines 77-89: the segment of one diarization turn
SegmentOf(seg, words) ==
    LET hits == SelectSeq(words, LAMBDA w : InTurn(seg, w))
    IN  [speaker |-> Get(seg, "speaker_label", NoneVal),
         start   |-> Seconds(Get(seg, "start", 0)),
         end     |-> Seconds(Get(seg, "end", 0)),
         text    |-> Join([i \in 1..Len(hits) |-> hits[i]["text"]])]

\* lines 67-73: the single segment of the fallback path
FallbackSegment_JoinsWords(json) ==
    LET words == Get(json, "words", <<>>)
    IN  [speaker |-> "Speaker_0",
         start   |-> Seconds(0),
         end     |-> Get(json, "audio_duration", 0),
         text    |-> Join([i \in 1..Len(words) |-> words[i]["text"]])]

FallbackSegment(json) ==
    [speaker |-> "Speaker_0",
     start   |-> Seconds(0),
     end     |-> Get(json, "audio_duration", 0),
     text    |-> Get(json, "text", "")]

\* sorted(segments, key=lambda x: x["start"]): Python's sort is stable, so an
\* element goes behind every element whose key is not greater than its own
RECURSIVE InsertByStart(_, _)
InsertByStart(s, x) ==
    IF s = <<>> THEN <<x>>
    ELSE IF SecondsLess(x.start, Head(s).start) THEN <<x>> \o s
    ELSE <<Head(s)>> \o InsertByStart(Tail(s), x)

RECURSIVE SortInto(_, _)
SortInto(acc, rest) ==
    IF rest = <<>> THEN acc ELSE SortInto(InsertByStart(acc, Head(rest)), Tail(rest))

sorted_Unsorted(segs) == segs

sorted(segs) == SortInto(<<>>, segs)

\* lines 63-90
format_segments(assembly_json) ==
    LET labels == Get(assembly_json, "speaker_labels", JNull)
    IN  IF UseFallback(labels)
        THEN <<FallbackSegment(assembly_json)>>
        ELSE LET words == Get(assembly_json, "words", <<>>)
                 turns == Get(labels.val, "segments", <<>>)
             IN  sorted([i \in 1..Len(turns) |-> SegmentOf(turns[i], words)])

----------------------------------------------------------------------------
(* main, lines 161-213, and the job client it drives *)

\* line 167: if result.get("error")
JobFailed_WrongKey(res) == TruthyStr(Get(res, "err", NoneVal))

JobFailed(res) == TruthyStr(Get(res, "error", NoneVal))

\* lines 175 and 207: out.lower().endswith(...) over the file names of Outputs
EndsWith(name, ext) ==
    \/ ext = ".pdf" /\ name \in {"notes.pdf"}
    \/ ext = ".txt" /\ name \in {"notes.txt"}

NoOutput == [kind |-> "none", file |-> "", lines |-> 0]

\* the diarized answer of the spec's scenario, and an answer without diarization
\* (speaker_labels echoes the request's boolean)
ScenarioResult ==
    [status |-> "completed", text |-> "Hi, bye.", audio_duration |-> 4,
     speaker_labels |->
        [kind |-> "dict",
         val  |-> [segments |-> << [speaker_label |-> "A", start |-> 0,    end |-> 2000],
                                   [speaker_label |-> "B", start |-> 2000, end |-> 4000] >>]],
     words |-> << [text |-> "hi",  start |-> 0,    end |-> 500],
                  [text |-> "bye", start |-> 2500, end |-> 3000] >>]

PlainResult ==
    [status |-> "completed", text |-> "Hi, bye.", audio_duration |-> 4,
     speaker_labels |-> [kind |-> "bool", val |-> TRUE],
     words |-> << [text |-> "hi",  start |-> 0,    end |-> 500],
                  [text |-> "bye", start |-> 2500, end |-> 3000] >>]

ErrorMessages == {"", "audio too short", "bad codec"}

\* the JSON bodies a status query can answer with
PendingJson  == {[status |-> "queued"], [status |-> "processing"], [id |-> "t1"]}
FinishedJson == {ScenarioResult, PlainResult}
ErroredJson  ==
    {[status |-> "error"]} \cup
    {[status |-> "error", error |-> m, text |-> "Hi", audio_duration |-> 1] : m \in ErrorMessages}
JobJson == PendingJson \cup FinishedJson \cup ErroredJson

Outputs == {"", "notes.pdf", "notes"}

IdleJob ==
    /\ pc = "idle" /\ token = TRUE /\ out = ""
    /\ queries = 0 /\ sleeps = 0 /\ failures = 0
    /\ statuses = <<>> /\ lastJson = NoResult /\ result = NoResult
    /\ outcome = "none" /\ reported = NoneVal
    /\ segments = <<>> /\ assembled = FALSE /\ emitted = NoOutput

IdleWrap ==
    /\ wtext = <<>> /\ wsize = 1 /\ wmax = 1 /\ wlines = <<>> /\ wpc = "idle"

IdlePage ==
    /\ y = 0 /\ page = 1 /\ drawn = << <<>> >> /\ font = "none" /\ ppc = "idle"

Init ==
    /\ pc = "upload"
    /\ token \in BOOLEAN
    /\ out \in Outputs
    /\ queries = 0 /\ sleeps = 0 /\ failures = 0
    /\ statuses = <<>>
    /\ lastJson = NoResult
    /\ result = NoResult
    /\ outcome = "none"
    /\ reported = NoneVal
    /\ segments = <<>>
    /\ assembled = FALSE
    /\ emitted = NoOutput
    /\ IdleWrap /\ IdlePage

\* lines 161-162 and 24-33: upload_to_assemblyai
Upload ==
    /\ pc = "upload"
    /\ IF ~token
       THEN /\ outcome' = "ConfigError"
            /\ pc' = "aborted"
       ELSE \E ok \in BOOLEAN :
              IF ok THEN /\ pc' = "request"
                         /\ UNCHANGED outcome
                    ELSE /\ outcome' = "SubmissionError"
                         /\ pc' = "aborted"
    /\ UNCHANGED <<token, out, queries, sleeps, failures, statuses, lastJson, result,
                   reported, segments, assembled, emitted, wrapVars, pageVars>>

\* lines 163-164 and 35-46: request_transcription
Request ==
    /\ pc = "request"
    /\ \E ok \in BOOLEAN :
         IF ok THEN /\ pc' = "poll"
                    /\ UNCHANGED outcome
               ELSE /\ outcome' = "SubmissionError"
                    /\ pc' = "aborted"
    /\ UNCHANGED <<token, out, queries, sleeps, failures, statuses, lastJson, result,
                   reported, segments, assembled, emitted, wrapVars, pageVars>>

\* lines 54-59: one status query that the service answers with a JSON body
PollAnswered ==
    /\ pc = "poll"
    /\ \E j \in JobJson :
         LET status == Get(j, "status", NoneVal) IN
         /\ IsTerminal(status) \/ queries < MaxPolls
         /\ queries' = queries + 1
         /\ statuses' = Append(statuses, status)
         /\ lastJson' = j
         /\ IF IsTerminal(status)
            THEN /\ result' = j
                 /\ pc' = "check"
            ELSE /\ UNCHANGED result
                 /\ pc' = "sleep"
    /\ UNCHANGED <<token, out, sleeps, failures, outcome, reported, segments,
                   assembled, emitted, wrapVars, pageVars>>

\* lines 54-55: one status query that times out or is answered 4xx/5xx
PollFailed ==
    /\ pc = "poll"
    /\ queries' = queries + 1
    /\ failures' = failures + 1
    /\ pc' = AfterFailedQuery(failures')
    /\ outcome' = IF pc' = "aborted" THEN "TransportError" ELSE outcome
    /\ UNCHANGED <<token, out, sleeps, statuses, lastJson, result, reported, segments,
                   assembled, emitted, wrapVars, pageVars>>

\* lines 60-61: print the status, time.sleep(interval)
Sleep ==
    /\ pc = "sleep"
    /\ sleeps' = sleeps + 1
    /\ pc' = "poll"
    /\ UNCHANGED <<token, out, queries, failures, statuses, lastJson, result, outcome,
                   reported, segments, assembled, emitted, wrapVars, pageVars>>

\* lines 166-169: the error check on what poll_transcription returned
Check ==
    /\ pc = "check"
    /\ IF JobFailed(result)
       THEN /\ reported' = result["error"]
            /\ outcome' = "JobError"
            /\ pc' = "aborted"
       ELSE /\ pc' = "format"
            /\ UNCHANGED <<reported, outcome>>
    /\ UNCHANGED <<token, out, queries, sleeps, failures, statuses, lastJson, result,
                   segments, assembled, emitted, wrapVars, pageVars>>

\* line 171
Format ==
    /\ pc = "format"
    /\ segments' = format_segments(result)
    /\ assembled' = TRUE
    /\ pc' = "render"
    /\ UNCHANGED <<token, out, queries, sleeps, failures, statuses, lastJson, result,
                   outcome, reported, emitted, wrapVars, pageVars>>

\* lines 172-213: the PDF, the text file or the printed lines, one line per
\* segment for the flat text (the PDF's lines are those of the pagination loop)
Render ==
    /\ pc = "render"
    /\ emitted' =
         IF out # "" /\ EndsWith(out, ".pdf")
         THEN [kind |-> "pdf", file |-> out, lines |-> Len(segments)]
         ELSE IF out # ""
              THEN [kind  |-> "txt",
                    file  |-> IF EndsWith(out, ".txt") THEN out ELSE out \o ".txt",
                    lines |-> Len(segments)]
              ELSE [kind |-> "stdout", file |-> "", lines |-> Len(segments)]
    /\ outcome' = "ok"
    /\ pc' = "done"
    /\ UNCHANGED <<token, out, queries, sleeps, failures, statuses, lastJson, result,
                   reported, segments, assembled, wrapVars, pageVars>>

Next == Upload \/ Request \/ PollAnswered \/ PollFailed \/ Sleep \/ Check \/ Format \/ Render

Spec == Init /\ [][Next]_vars

----------------------------------------------------------------------------
(* Claims about the job client and main, checked under Spec *)

Last(s) == s[Len(s)]

\* C1: whenever the service has answered k >= 0 non-terminal statuses followed
\* by a terminal one, poll_transcription has issued exactly k+1 status queries,
\* slept exactly k times (once after each non-terminal answer, not after the
\* terminal one) and returned the JSON of the terminal answer; for the answers
\* queued, processing, completed that is the completed result after 2 sleeps.
C1_PollCounts ==
    /\ (statuses # <<>> /\ Last(statuses) \in {"completed", "error"}) =>
          /\ \A i \in 1..(Len(statuses) - 1) : statuses[i] \notin {"completed", "error"}
          /\ queries = Len(statuses)
          /\ sleeps = Len(statuses) - 1
          /\ result = lastJson
          /\ Get(result, "status", NoneVal) = Last(statuses)
          /\ pc \notin {"poll", "sleep"}
    /\ (result # NoResult) =>
          (statuses # <<>> /\ Last(statuses) \in {"completed", "error"})
    /\ (statuses = <<"queued", "processing", "completed">>) =>
          (sleeps = 2 /\ queries = 3 /\ result \in FinishedJson)

C1_Witness ==
    /\ statuses = <<"queued", "processing", "completed">>
    /\ pc = "check"
    /\ result = ScenarioResult

\* C2: an answer with status error and a (non-empty) message m ends the run
\* with a JobError that reports exactly m, and no status query, wait or
\* resubmission follows that answer.
C2_ErroredIsTerminal ==
    /\ \A i \in 1..Len(statuses) :
          statuses[i] = "error" =>
             /\ i = Len(statuses)
             /\ queries = Len(statuses)
             /\ sleeps = Len(statuses) - 1
             /\ pc \in {"check", "format", "render", "done", "aborted"}
    /\ \A m \in ErrorMessages \ {""} :
          (lastJson # NoResult /\ Get(lastJson, "status", NoneVal) = "error"
             /\ Get(lastJson, "error", NoneVal) = m /\ pc # "check") =>
                /\ pc = "aborted"
                /\ outcome = "JobError"
                /\ reported = m

C2_Witness ==
    /\ outcome = "JobError"
    /\ reported = "audio too short"
    /\ statuses = <<"queued", "error">>
    /\ pc = "aborted"

C4_NoOutputOnFatal ==
    (\/ outcome \in {"ConfigError", "SubmissionError", "TransportError", "JobError"}
     \/ (result # NoResult /\ Get(result, "status", NoneVal) = "error"))
       => (~assembled /\ emitted = NoOutput)

----------------------------------------------------------------------------
(* format_segments applied to the results the service can send *)

Speakers  == {"A", "B"}
TurnTimes == {0, 1500, 2000}        \* milliseconds
WordTexts == {"hi", "bye"}

Turns ==
    {[speaker_label |-> sp, start |-> a, end |-> b] :
        sp \in Speakers, a \in TurnTimes, b \in TurnTimes}
WellFormedTurns == {t \in Turns : t["start"] < t["end"]}
Words == {[text |-> t, start |-> a, end |-> a + 500] : t \in WordTexts, a \in TurnTimes}

SeqsUpTo(S, n) == UNION {[1..k -> S] : k \in 0..n}

\* speaker_labels values that are not an object
NonObjectLabels ==
    {JNull,
     [kind |-> "bool",   val |-> FALSE], [kind |-> "bool",   val |-> TRUE],
     [kind |-> "number", val |-> 0],     [kind |-> "number", val |-> 2],
     [kind |-> "string", val |-> ""],    [kind |-> "string", val |-> "A"],
     [kind |-> "list",   val |-> <<>>],
     [kind |-> "list",   val |-> <<[speaker_label |-> "A", start |-> 0, end |-> 2000]>>]}

\* speaker_labels values that are an object: empty, without a segments key,
\* or with a list of turns
ObjectLabels ==
    {[kind |-> "dict", val |-> <<>>],
     [kind |-> "dict", val |-> [speakers |-> 2]]} \cup
    {[kind |-> "dict", val |-> [segments |-> ts]] : ts \in SeqsUpTo(WellFormedTurns, MaxTurns)}

AssemblyInputs ==
    {[status |-> "completed", text |-> "Hi, bye.", audio_duration |-> 4, words |-> ws] :
        ws \in SeqsUpTo(Words, MaxWords)} \cup
    {[status |-> "completed", text |-> "Hi, bye.", audio_duration |-> 4, words |-> ws,
      speaker_labels |-> l] :
        ws \in SeqsUpTo(Words, MaxWords), l \in NonObjectLabels \cup ObjectLabels} \cup
    {[status |-> "completed", speaker_labels |-> [kind |-> "bool", val |-> TRUE]],
     [status |-> "completed",
      speaker_labels |-> [kind |-> "dict", val |-> [segments |-> <<>>]]],
     ScenarioResult, PlainResult}

\* main has reached line 171 with a completed result
InitAssemble ==
    /\ pc = "format"
    /\ token = TRUE
    /\ out \in {"", "notes"}
    /\ result \in AssemblyInputs
    /\ lastJson = result
    /\ queries = 1 /\ sleeps = 0 /\ failures = 0
    /\ statuses = <<"completed">>
    /\ outcome = "none"
    /\ reported = NoneVal
    /\ segments = <<>>
    /\ assembled = FALSE
    /\ emitted = NoOutput
    /\ IdleWrap /\ IdlePage

NextAssemble == Format \/ Render

SpecAssemble == InitAssemble /\ [][NextAssemble]_vars

----------------------------------------------------------------------------
(* Claims about format_segments, checked under SpecAssemble *)

InputLabels == Get(result, "speaker_labels", JNull)
InputWords  == Get(result, "words", <<>>)

\* the result carries a non-empty object as speaker_labels
Diarized == InputLabels.kind = "dict" /\ DOMAIN InputLabels.val # {}

InputTurns == IF Diarized THEN Get(InputLabels.val, "segments", <<>>) ELSE <<>>

\* seconds as whole seconds and thousandths, written out
AsSeconds(s, th) == [sec |-> s, msec |-> th]

\* C5: for a result with diarization, whatever the order of its turns, the
\* returned segments are in ascending order of start, and the segments of equal
\* start keep the relative order their turns have in the input.
C5_SortedStable ==
    (assembled /\ Diarized) =>
       /\ \A i \in 1..(Len(segments) - 1) :
             \/ segments[i].start.sec < segments[i+1].start.sec
             \/ /\ segments[i].start.sec = segments[i+1].start.sec
                /\ segments[i].start.msec <= segments[i+1].start.msec
       /\ \A t \in TurnTimes :
             LET same == SelectSeq(segments,
                            LAMBDA g : g.start.sec * 1000 + g.start.msec = t)
                 from == SelectSeq(InputTurns, LAMBDA u : u["start"] = t)
             IN  /\ Len(same) = Len(from)
                 /\ \A i \in 1..Len(same) :
                       /\ same[i].speaker = from[i]["speaker_label"]
                       /\ same[i].end.sec * 1000 + same[i].end.msec = from[i]["end"]

\* two turns with the same start, different speakers and ends in descending order
C5_Witness ==
    /\ assembled /\ Diarized
    /\ Len(InputTurns) = 2
    /\ InputTurns[1]["start"] = InputTurns[2]["start"]
    /\ InputTurns[1]["speaker_label"] # InputTurns[2]["speaker_label"]
    /\ InputTurns[1]["end"] > InputTurns[2]["end"]
    /\ Len(segments) = 2

\* C6: every turn yields one segment whose text is the texts of exactly the
\* words with turn.start <= word.start < turn.end, in input order, joined by
\* single spaces ("" when there is none); a word starting at a turn's end is
\* not in that turn and is in the turns starting there; the spec's scenario
\* yields [{A,0.0,2.0,"hi"},{B,2.0,4.0,"bye"}].  The expected text is written
\* out for the up to three words a turn can hold here.
C6_HalfOpenInterval ==
    (assembled /\ Diarized) =>
       /\ Len(segments) = Len(InputTurns)
       /\ \A i \in 1..Len(InputTurns) :
             LET u    == InputTurns[i]
                 hits == SelectSeq(InputWords,
                            LAMBDA w : u["start"] <= w["start"] /\ w["start"] < u["end"])
                 text == IF Len(hits) = 0 THEN ""
                         ELSE IF Len(hits) = 1 THEN hits[1]["text"]
                         ELSE IF Len(hits) = 2 THEN hits[1]["text"] \o " " \o hits[2]["text"]
                         ELSE hits[1]["text"] \o " " \o hits[2]["text"] \o " " \o hits[3]["text"]
             IN  \E k \in 1..Len(segments) :
                    segments[k] =
                       [speaker |-> u["speaker_label"],
                        start   |-> AsSeconds(u["start"] \div 1000, u["start"] % 1000),
                        end     |-> AsSeconds(u["end"] \div 1000, u["end"] % 1000),
                        text    |-> text]
       /\ (result = ScenarioResult) =>
             segments = << [speaker |-> "A", start |-> AsSeconds(0, 0),
                            end |-> AsSeconds(2, 0), text |-> "hi"],
                           [speaker |-> "B", start |-> AsSeconds(2, 0),
                            end |-> AsSeconds(4, 0), text |-> "bye"] >>

\* a word that starts where one turn ends and the next one starts
C6_Witness ==
    /\ assembled /\ Diarized
    /\ InputTurns = << [speaker_label |-> "A", start |-> 0,    end |-> 1500],
                       [speaker_label |-> "B", start |-> 1500, end |-> 2000] >>
    /\ InputWords = << [text |-> "hi", start |-> 0, end |-> 500],
                       [text |-> "bye", start |-> 1500, end |-> 2000] >>
    /\ segments[1].text = "hi"
    /\ segments[2].text = "bye"

\* C7: when speaker_labels is missing or is not an object (null, boolean,
\* number, string, list), format_segments returns exactly one segment: start 0,
\* end the reported audio_duration, speaker "Speaker_0", text the flat
\* transcript text, whatever words the result carries.
C7_FallbackOnNonObject ==
    (assembled /\ InputLabels.kind # "dict") =>
       segments = << [speaker |-> "Speaker_0",
                      start   |-> AsSeconds(0, 0),
                      end     |-> Get(result, "audio_duration", 0),
                      text    |-> Get(result, "text", "")] >>

\* a non-empty list as speaker_labels, with words present
C7_Witness ==
    /\ assembled
    /\ InputLabels.kind = "list" /\ InputLabels.val # <<>>
    /\ Len(InputWords) = 2
    /\ Len(segments) = 1
    /\ segments[1].text = "Hi, bye."
    /\ segments[1].end = 4

\* C8: when speaker_labels is an object whose list of turns is empty and the
\* result carries words, format_segments returns the single fallback segment
\* (end audio_duration, text the flat transcript text), not an empty sequence.
C8_FallbackOnEmptyTurns ==
    (/\ assembled
     /\ InputLabels.kind = "dict"
     /\ "segments" \in DOMAIN InputLabels.val
     /\ InputLabels.val["segments"] = <<>>
     /\ InputWords # <<>>) =>
       segments = << [speaker |-> "Speaker_0",
                      start   |-> AsSeconds(0, 0),
                      end     |-> Get(result, "audio_duration", 0),
                      text    |-> Get(result, "text", "")] >>

----------------------------------------------------------------------------
(* wrap_text *)

\* text.split(): the maximal runs of non-blank characters, each as its length
RECURSIVE SplitFrom(_, _, _)
SplitFrom(text, run, acc) ==
    IF text = <<>> THEN (IF run > 0 THEN Append(acc, run) ELSE acc)
    ELSE IF Head(text) = " "
         THEN SplitFrom(Tail(text), 0, IF run > 0 THEN Append(acc, run) ELSE acc)
         ELSE SplitFrom(Tail(text), run + 1, acc)

split(text) == SplitFrom(text, 0, <<>>)

RECURSIVE Sum(_)
Sum(s) == IF s = <<>> THEN 0 ELSE Head(s) + Sum(Tail(s))

\* stringWidth(line, font, size) for a line of words joined by single blanks,
\* every character of the font as wide as the font size
stringWidth(line, fnt, size) ==
    IF line = <<>> THEN 0 ELSE size * (Sum(line) + Len(line) - 1)

\* line 103: stringWidth(test, font, size) <= max_width
Fits_MeasuresLastWord(test, fnt, size, max_width) ==
    stringWidth(<<test[Len(test)]>>, fnt, size) <= max_width

Fits(test, fnt, size, max_width) == stringWidth(test, fnt, size) <= max_width

\* lines 101-110: the loop over the words, then the flush of the last line
RECURSIVE WrapLoop(_, _, _, _, _, _)
WrapLoop(words, current, lines, fnt, size, max_width) ==
    IF words = <<>>
    THEN (IF current # <<>> THEN Append(lines, current) ELSE lines)
    ELSE LET w    == Head(words)
             test == IF current = <<>> THEN <<w>> ELSE Append(current, w)
         IN  IF Fits(test, fnt, size, max_width)
             THEN WrapLoop(Tail(words), test, lines, fnt, size, max_width)
             ELSE WrapLoop(Tail(words), <<w>>,
                           IF current # <<>> THEN Append(lines, current) ELSE lines,
                           fnt, size, max_width)

\* lines 96-111
wrap_text(text, fnt, size, max_width) ==
    WrapLoop(split(text), <<>>, <<>>, fnt, size, max_width)

Chars      == {"a", " "}
FontSizes  == {1, 2}
WrapWidths == {2, 3, 5}

InitWrap ==
    /\ wtext \in SeqsUpTo(Chars, MaxChars)
    /\ wsize \in FontSizes
    /\ wmax \in WrapWidths
    /\ wlines = <<>>
    /\ wpc = "input"
    /\ IdleJob /\ IdlePage

\* lines 191-192: the call of wrap_text
Wrap ==
    /\ wpc = "input"
    /\ wlines' = wrap_text(wtext, "Helvetica", wsize, wmax)
    /\ wpc' = "wrapped"
    /\ UNCHANGED <<wtext, wsize, wmax, jobVars, pageVars>>

NextWrap == Wrap

SpecWrap == InitWrap /\ [][NextWrap]_vars

RECURSIVE Flatten(_)
Flatten(ls) == IF ls = <<>> THEN <<>> ELSE Head(ls) \o Flatten(Tail(ls))

\* C9: every line wrap_text returns is either no wider than max_width or a
\* single word that alone is wider than max_width; the lines are the words of
\* the text, whole and in order (no word is split, none is lost).
C9_LinesFit ==
    (wpc = "wrapped") =>
       /\ \A i \in 1..Len(wlines) :
             LET line == wlines[i] IN
             /\ line # <<>>
             /\ \/ wsize * (Sum(line) + Len(line) - 1) <= wmax
                \/ (Len(line) = 1 /\ wsize * line[1] > wmax)
       /\ Flatten(wlines) = split(wtext)

\* a line of two words, then a word wider than max_width alone on its line
C9_Witness ==
    /\ wpc = "wrapped"
    /\ wsize = 1 /\ wmax = 3
    /\ wlines = << <<1, 1>>, <<4>> >>

----------------------------------------------------------------------------
(* main, lines 176-200: the PDF pagination loop *)

height    == 792      \* line 177: the height of reportlab's letter page, in points
margin    == 72       \* line 178
font_size == 10       \* line 182
TitleDrop == 24       \* line 185

\* lines 180 and 196: height - margin
PageTop == height - margin

\* line 199: font_size + 2
Leading == font_size + 2

\* line 194: if y < margin
NeedsNewPage_BelowPage(cursor) == cursor < 0

NeedsNewPage(cursor) == cursor < margin

BodyLines == Sum([p \in 1..Len(drawn) |-> Len(drawn[p])])

\* lines 176-182: the canvas is created, the cursor put at the top margin
InitPage ==
    /\ ppc = "title"
    /\ y = PageTop
    /\ page = 1
    /\ drawn = << <<>> >>
    /\ font = "none"
    /\ IdleJob /\ IdleWrap

\* lines 183-186: the title in Helvetica-Bold 14, then the body font
DrawTitle ==
    /\ ppc = "title"
    /\ y' = y - TitleDrop
    /\ font' = "Helvetica"
    /\ ppc' = "body"
    /\ UNCHANGED <<page, drawn, jobVars, wrapVars>>

\* lines 193-199: one wrapped line; showPage resets the canvas' font, setFont
\* applies the body font again
DrawLine ==
    /\ ppc = "body"
    /\ BodyLines < MaxLines
    /\ LET break  == NeedsNewPage(y)
           cursor == IF break THEN PageTop ELSE y
           pages  == IF break THEN Append(drawn, <<>>) ELSE drawn
           cur    == Len(pages)
       IN  /\ page' = IF break THEN page + 1 ELSE page
           /\ font' = IF break THEN "Helvetica" ELSE font
           /\ drawn' = [pages EXCEPT ![cur] = Append(pages[cur], cursor)]
           /\ y' = cursor - Leading
    /\ UNCHANGED <<ppc, jobVars, wrapVars>>

\* line 200: no segment is left, c.save()
Save ==
    /\ ppc = "body"
    /\ ppc' = "saved"
    /\ UNCHANGED <<y, page, drawn, font, jobVars, wrapVars>>

NextPage == DrawTitle \/ DrawLine \/ Save

SpecPage == InitPage /\ [][NextPage]_vars

\* C10: every body line is drawn at a cursor position that is not below the
\* bottom margin; a line that would fall below it opens a new page, on which
\* it is drawn at the top margin in the body font; and the first page, which
\* carries the title, holds strictly fewer body lines than every later page
\* that was filled.
C10_Pagination ==
    /\ Len(drawn) = page
    /\ \A p \in 1..Len(drawn) :
          /\ \A i \in 1..Len(drawn[p]) : drawn[p][i] >= 72
          /\ (p > 1) => (drawn[p] # <<>> /\ drawn[p][1] = 792 - 72)
          /\ (p = 1 /\ drawn[p] # <<>>) => drawn[p][1] = 792 - 72 - 24
          /\ (1 < p /\ p < Len(drawn)) => Len(drawn[1]) < Len(drawn[p])
    /\ (ppc \in {"body", "saved"}) => font = "Helvetica"

\* the first page and the second page are full and a third one is begun
C10_Witness ==
    /\ Len(drawn) = 3
    /\ Len(drawn[1]) = 53
    /\ Len(drawn[2]) = 55
    /\ drawn[1][53] = 72
    /\ drawn[3] = <<720>>

====
